---- MODULE Spec2Model ----
(***************************************************************************)
(* Model of app.py: the mortality dashboard script.  One run of the script *)
(* (a "pass") is executed top to bottom; every widget change reruns it.    *)
(* Text (column names, cell contents, clinic names) is a tuple of          *)
(* one-character strings, so that stripping, lower-casing, replacing and   *)
(* numeric parsing are computed character by character.                    *)
(***************************************************************************)
EXTENDS Integers, Sequences, FiniteSets, TLC

VARIABLES
    raw,               \* the CSV file on disk: [exists, columns, rows]
    cache,             \* st.cache_data store of load_data: [filled, df]
    df,                \* the script variable df of the current pass
    cols_map,          \* df.attrs["cols_map"] as read at lines 80-84
    wYear,             \* slider widget state: <<>> (untouched) or <<lo, hi>>
    wClinics,          \* multiselect widget state: [touched, val]
    wAgg,              \* selectbox widget state: "Sum" or "Mean"
    year_range,        \* line 121
    selected_clinics,  \* line 124, as the set of the selected names
    agg_func,          \* line 127
    filtered,          \* lines 132-134
    deaths_by_year,    \* line 140
    comp,              \* line 150 (empty when there is no births column)
    clinic_agg,        \* line 159
    total_deaths,      \* line 179
    total_births,      \* line 182
    metrics,           \* the strings handed to st.metric, lines 180 and 183
    ran,               \* the steps of the script executed in this pass
    err,               \* the error this pass ended with: [kind, cols]
    pc                 \* position of the script

vars == <<raw, cache, df, cols_map, wYear, wClinics, wAgg, year_range,
          selected_clinics, agg_func, filtered, deaths_by_year, comp,
          clinic_agg, total_deaths, total_births, metrics, ran, err, pc>>

(***************************************************************************)
(* Bounds                                                                  *)
(***************************************************************************)
MaxRows == 2

(***************************************************************************)
(* Text helpers                                                            *)
(***************************************************************************)
Range(s) == {s[i] : i \in 1..Len(s)}

Count(s, x) == Cardinality({i \in 1..Len(s) : s[i] = x})

IndexOf(s, x) == CHOOSE i \in 1..Len(s) : s[i] = x

UpperToLower ==
    ("A" :> "a") @@ ("B" :> "b") @@ ("C" :> "c") @@ ("D" :> "d") @@
    ("E" :> "e") @@ ("H" :> "h") @@ ("I" :> "i") @@ ("L" :> "l") @@
    ("N" :> "n") @@ ("O" :> "o") @@ ("P" :> "p") @@ ("R" :> "r") @@
    ("S" :> "s") @@ ("T" :> "t") @@ ("U" :> "u") @@ ("Y" :> "y")

\* code points of the characters that occur in clinic names
CodePoint == ("A" :> 65) @@ ("B" :> 66) @@ ("C" :> 67) @@ ("l" :> 108)

DigitValue ==
    ("0" :> 0) @@ ("1" :> 1) @@ ("2" :> 2) @@ ("3" :> 3) @@ ("4" :> 4) @@
    ("5" :> 5) @@ ("6" :> 6) @@ ("7" :> 7) @@ ("8" :> 8) @@ ("9" :> 9)

RECURSIVE lstrip(_)
lstrip(s) == IF s # <<>> /\ Head(s) = " " THEN lstrip(Tail(s)) ELSE s

RECURSIVE rstrip(_)
rstrip(s) ==
    IF s # <<>> /\ s[Len(s)] = " " THEN rstrip(SubSeq(s, 1, Len(s) - 1)) ELSE s

str_strip(s) == rstrip(lstrip(s))

str_lower(s) ==
    [i \in 1..Len(s) |-> IF s[i] \in DOMAIN UpperToLower
                         THEN UpperToLower[s[i]] ELSE s[i]]

str_replace(s, old, new) == [i \in 1..Len(s) |-> IF s[i] = old THEN new ELSE s[i]]

\* str < str in Python: lexicographic by code point, a proper prefix is smaller
RECURSIVE StrLess(_, _)
StrLess(a, b) ==
    IF b = <<>> THEN FALSE
    ELSE IF a = <<>> THEN TRUE
    ELSE IF Head(a) = Head(b) THEN StrLess(Tail(a), Tail(b))
    ELSE CodePoint[Head(a)] < CodePoint[Head(b)]

(***************************************************************************)
(* Cells.  A cell is [kind, s, v]: text ("str"), a number ("num") or a     *)
(* missing value ("na": NaN / pd.NA).                                      *)
(***************************************************************************)
Str(s) == [kind |-> "str", s |-> s, v |-> 0]
Num(n) == [kind |-> "num", s |-> <<>>, v |-> n]
NA == [kind |-> "na", s |-> <<>>, v |-> 0]

RECURSIVE ParseDigits(_, _)
ParseDigits(s, acc) ==
    IF s = <<>> THEN acc ELSE ParseDigits(Tail(s), 10 * acc + DigitValue[Head(s)])

\* pd.to_numeric(..., errors="coerce") on one cell
to_numeric(c) ==
    IF c.kind = "num" THEN c
    ELSE IF c.kind = "na" THEN NA
    ELSE LET t == c.s IN
         IF t # <<>> /\ \A i \in 1..Len(t) : t[i] \in DOMAIN DigitValue
         THEN Num(ParseDigits(t, 0))
         ELSE NA

\* pd.read_csv on one field of a data line: an empty field is NaN
read_cell(text) == IF text = <<>> THEN NA ELSE Str(text)

(***************************************************************************)
(* Column normalization and detection, lines 16-28                         *)
(***************************************************************************)
None == <<"None">>

normalize_name(name) == str_replace(str_lower(str_strip(name)), " ", "_")

normalize_columns(d) ==
    [d EXCEPT !.columns = [i \in 1..Len(d.columns) |-> normalize_name(d.columns[i])]]

\* variant: the last alias present wins
RECURSIVE find_last(_, _)
find_last(df_cols, candidates) ==
    IF candidates = <<>> THEN None
    ELSE IF candidates[Len(candidates)] \in Range(df_cols)
         THEN candidates[Len(candidates)]
    ELSE find_last(df_cols, SubSeq(candidates, 1, Len(candidates) - 1))

RECURSIVE find_first(_, _)
find_first(df_cols, candidates) ==
    IF candidates = <<>> THEN None
    ELSE IF Head(candidates) \in Range(df_cols) THEN Head(candidates)
    ELSE find_first(df_cols, Tail(candidates))

YearAliases == << <<"y","e","a","r">>, <<"y","r">> >>

DeathAliases ==
    << <<"d","e","a","t","h","s">>,
       <<"d","e","a","t","h">>,
       <<"d","e","a","t","h","s","_","c","o","u","n","t">>,
       <<"d","e","a","t","h","_","c","o","u","n","t">> >>

BirthAliases ==
    << <<"b","i","r","t","h","s">>,
       <<"b","i","r","t","h">>,
       <<"b","i","r","t","h","_","c","o","u","n","t">>,
       <<"b","i","r","t","h","s","_","c","o","u","n","t">> >>

ClinicAliases ==
    << <<"c","l","i","n","i","c">>,
       <<"h","o","s","p","i","t","a","l">>,
       <<"p","l","a","c","e">>,
       <<"l","o","c","a","t","i","o","n">> >>

(***************************************************************************)
(* Data frames: [columns, rows, attrs]; rows[i][j] is the cell of row i in *)
(* column j.                                                               *)
(***************************************************************************)
NameYear == <<"y","e","a","r">>
NameDeaths == <<"d","e","a","t","h","s">>
NameBirths == <<"b","i","r","t","h","s">>
NameClinic == <<"c","l","i","n","i","c">>
NamePlaceholder ==
    <<"c","l","i","n","i","c","_","p","l","a","c","e","h","o","l","d","e","r">>
TextAll == <<"A","l","l">>

NoColsMap == [year |-> None, deaths |-> None, births |-> None, clinic |-> None]
EmptyFrame == [columns |-> <<>>, rows |-> <<>>, attrs |-> NoColsMap]
NoError == [kind |-> "none", cols |-> <<>>]

\* df[name] selects one column only when the label is unique; with a
\* duplicated label it is a DataFrame, which to_numeric and .unique reject
IsSeries(d, name) == Count(d.columns, name) = 1

Cell(d, i, name) == d.rows[i][IndexOf(d.columns, name)]

\* df[name] = pd.to_numeric(df[name], errors="coerce")
NumericColumn(d, name) ==
    [d EXCEPT !.rows = [i \in 1..Len(d.rows) |->
        [j \in 1..Len(d.columns) |->
            IF d.columns[j] = name THEN to_numeric(d.rows[i][j]) ELSE d.rows[i][j]]]]

\* variant: only the first row receives the value, the others stay missing
AssignConstantFirstRow(d, name, value) ==
    [d EXCEPT !.columns = Append(d.columns, name),
              !.rows = [i \in 1..Len(d.rows) |->
                          Append(d.rows[i], IF i = 1 THEN value ELSE NA)]]

\* df[name] = value, line 96: overwrite the column or append it
AssignConstant(d, name, value) ==
    IF name \in Range(d.columns)
    THEN [d EXCEPT !.rows = [i \in 1..Len(d.rows) |->
            [j \in 1..Len(d.columns) |->
                IF d.columns[j] = name THEN value ELSE d.rows[i][j]]]]
    ELSE [d EXCEPT !.columns = Append(d.columns, name),
                   !.rows = [i \in 1..Len(d.rows) |-> Append(d.rows[i], value)]]

\* df.rename(columns={old: new}); a label that is absent is ignored
RenameColumn(d, old, new) ==
    [d EXCEPT !.columns = [j \in 1..Len(d.columns) |->
        IF d.columns[j] = old THEN new ELSE d.columns[j]]]

\* pd.read_csv, line 32
read_csv(file) ==
    [columns |-> file.columns,
     rows |-> [i \in 1..Len(file.rows) |->
                 [j \in 1..Len(file.columns) |-> read_cell(file.rows[i][j])]],
     attrs |-> NoColsMap]

\* the body of load_data, lines 32-57: [error, df]
load_data(file) ==
    LET d1 == normalize_columns(read_csv(file))
        year_col == find_first(d1.columns, YearAliases)
        death_col == find_first(d1.columns, DeathAliases)
        birth_col == find_first(d1.columns, BirthAliases)
        clinic_col == find_first(d1.columns, ClinicAliases)
        bad(col) == col # None /\ ~IsSeries(d1, col)
        d2 == IF year_col # None THEN NumericColumn(d1, year_col) ELSE d1
        d3 == IF death_col # None THEN NumericColumn(d2, death_col) ELSE d2
        d4 == IF birth_col # None THEN NumericColumn(d3, birth_col) ELSE d3
    IN  IF ~file.exists
        THEN [error |-> "FileNotFoundError", df |-> EmptyFrame]
        ELSE IF bad(year_col) \/ bad(death_col) \/ bad(birth_col)
        THEN [error |-> "TypeError", df |-> EmptyFrame]
        ELSE [error |-> "none",
              df |-> [d4 EXCEPT !.attrs = [year |-> year_col, deaths |-> death_col,
                                           births |-> birth_col, clinic |-> clinic_col]]]

\* lines 94-108 on the frame the load returned
canonicalize(d, cm) ==
    LET clinic_col == IF cm.clinic = None THEN NamePlaceholder ELSE cm.clinic
        a == IF cm.clinic = None THEN AssignConstant(d, NamePlaceholder, Str(TextAll))
             ELSE d
        b == RenameColumn(RenameColumn(RenameColumn(a, cm.year, NameYear),
                                       cm.deaths, NameDeaths),
                          clinic_col, NameClinic)
        c == IF cm.births # None THEN RenameColumn(b, cm.births, NameBirths) ELSE b
        e == NumericColumn(NumericColumn(c, NameYear), NameDeaths)
    IN  IF NameBirths \in Range(e.columns) THEN NumericColumn(e, NameBirths)
        ELSE e

(***************************************************************************)
(* Reduced values: [nan, num, den] is NaN or the number num / den          *)
(***************************************************************************)
NaNVal == [nan |-> TRUE, num |-> 0, den |-> 1]
Frac(n, d) == [nan |-> FALSE, num |-> n, den |-> d]

VEq(a, b) == ~a.nan /\ ~b.nan /\ a.num * b.den = b.num * a.den
VGt(a, b) == ~a.nan /\ ~b.nan /\ a.num * b.den > b.num * a.den

RECURSIVE SumSeq(_)
SumSeq(s) == IF s = <<>> THEN 0 ELSE Head(s) + SumSeq(Tail(s))

\* Series.agg("sum") and Series.agg("mean"): missing values are skipped; the
\* sum of nothing is 0 and the mean of nothing is NaN
agg(cells, func) ==
    LET present == SelectSeq(cells, LAMBDA c : c.kind = "num")
        total == SumSeq([i \in 1..Len(present) |-> present[i].v])
    IN  IF func = "sum" THEN Frac(total, 1)
        ELSE IF Len(present) = 0 THEN NaNVal
        ELSE Frac(total, Len(present))

DigitChar == <<"0","1","2","3","4","5","6","7","8","9">>

RECURSIVE IntToStr(_)
IntToStr(n) ==
    IF n < 10 THEN <<DigitChar[n + 1]>>
    ELSE Append(IntToStr(n \div 10), DigitChar[(n % 10) + 1])

\* f"{value:.0f}": round half to even, "nan" for NaN
format_0f(x) ==
    IF x.nan THEN <<"n","a","n">>
    ELSE LET q == x.num \div x.den
             r == x.num % x.den
         IN  IntToStr(IF 2 * r < x.den THEN q
                      ELSE IF 2 * r > x.den THEN q + 1
                      ELSE IF q % 2 = 0 THEN q ELSE q + 1)

(***************************************************************************)
(* Sorting and grouping                                                    *)
(***************************************************************************)
RECURSIVE SortedInts(_)
SortedInts(S) ==
    IF S = {} THEN <<>>
    ELSE LET m == CHOOSE x \in S : \A y \in S : x <= y
         IN  <<m>> \o SortedInts(S \ {m})

\* sorted(list of str)
RECURSIVE SortedNames(_)
SortedNames(S) ==
    IF S = {} THEN <<>>
    ELSE LET m == CHOOSE x \in S : \A y \in S \ {x} : StrLess(x, y)
         IN  <<m>> \o SortedNames(S \ {m})

\* the rows of d whose cell in column name equals key
RowsWhere(d, name, key) ==
    SelectSeq(d.rows, LAMBDA r : r[IndexOf(d.columns, name)] = key)

ColumnOf(d, rows, name) == [i \in 1..Len(rows) |-> rows[i][IndexOf(d.columns, name)]]

\* filtered.groupby("year")[value].agg(agg_func).reset_index(): one row per
\* year present, ascending; groupby drops missing keys
groupby_year(d, value, func) ==
    LET keys == SortedInts({Cell(d, i, NameYear).v :
                    i \in {k \in 1..Len(d.rows) : Cell(d, k, NameYear).kind = "num"}})
    IN  [k \in 1..Len(keys) |->
            [year |-> keys[k],
             value |-> agg(ColumnOf(d, RowsWhere(d, NameYear, Num(keys[k])), value),
                           func)]]

\* filtered.groupby("clinic")["deaths"].agg(agg_func).reset_index(): one row
\* per clinic present, ascending by name; groupby drops missing keys
groupby_clinic(d, func) ==
    LET keys == SortedNames({Cell(d, i, NameClinic).s :
                    i \in {k \in 1..Len(d.rows) : Cell(d, k, NameClinic).kind = "str"}})
    IN  [k \in 1..Len(keys) |->
            [clinic |-> keys[k],
             deaths |-> agg(ColumnOf(d, RowsWhere(d, NameClinic, Str(keys[k])),
                                     NameDeaths), func)]]

\* .sort_values("deaths", ascending=False): the default kind is quicksort,
\* which is not stable, so rows with equal keys come out in any order; NaN
\* keys are appended last in their original order.  The set of results.
sort_values_desc(g) ==
    LET n == Len(g)
        perms == {p \in [1..n -> 1..n] : \A a, b \in 1..n : a # b => p[a] # p[b]}
        ok(p) == \A a, b \in 1..n : a < b =>
                    /\ g[p[a]].deaths.nan => g[p[b]].deaths.nan
                    /\ (g[p[a]].deaths.nan /\ g[p[b]].deaths.nan) => p[a] < p[b]
                    /\ (~g[p[a]].deaths.nan /\ ~g[p[b]].deaths.nan)
                            => ~VGt(g[p[b]].deaths, g[p[a]].deaths)
    IN  {[k \in 1..n |-> g[p[k]]] : p \in {q \in perms : ok(q)}}

\* .melt("year", var_name="metric", value_name="count") of the two grouped
\* columns: the deaths rows, then the births rows
melt(byDeaths, byBirths) ==
    [k \in 1..Len(byDeaths) |->
        [year |-> byDeaths[k].year, metric |-> "deaths", count |-> byDeaths[k].value]]
    \o
    [k \in 1..Len(byBirths) |->
        [year |-> byBirths[k].year, metric |-> "births", count |-> byBirths[k].value]]

(***************************************************************************)
(* Filtering, lines 132-134                                                *)
(***************************************************************************)
\* variant: the upper end of the range is exclusive
InYearRangeExclusive(c, yr) == c.kind = "num" /\ c.v >= yr[1] /\ c.v < yr[2]

\* variant: a missing year passes the range test
InYearRangeMissingPasses(c, yr) ==
    c.kind = "na" \/ (c.kind = "num" /\ c.v >= yr[1] /\ c.v <= yr[2])

\* a comparison with a missing year is missing, and a missing mask entry
\* selects nothing
InYearRange(c, yr) == c.kind = "num" /\ c.v >= yr[1] /\ c.v <= yr[2]

\* variant: a missing clinic passes the membership test
IsInOrMissing(c, names) == c.kind = "na" \/ (c.kind = "str" /\ c.s \in names)

\* Series.isin: a missing clinic is in no list of names
IsIn(c, names) == c.kind = "str" /\ c.s \in names

filter_rows(d, yr, sel) ==
    LET byYear == SelectSeq(d.rows,
                    LAMBDA r : InYearRange(r[IndexOf(d.columns, NameYear)], yr))
    IN  IF sel # {}
        THEN SelectSeq(byYear, LAMBDA r : IsIn(r[IndexOf(d.columns, NameClinic)], sel))
        ELSE byYear

\* variant: the filter result is bound to df as well
FilterStepRebind(d, yr, sel) ==
    [df |-> [d EXCEPT !.rows = filter_rows(d, yr, sel)],
     filtered |-> [d EXCEPT !.rows = filter_rows(d, yr, sel)]]

\* the two frames bound after lines 132-134: df is not rebound, filtered is new
FilterStep(d, yr, sel) ==
    [df |-> d, filtered |-> [d EXCEPT !.rows = filter_rows(d, yr, sel)]]

(***************************************************************************)
(* The CSV files considered: a header and up to MaxRows data lines, each   *)
(* field drawn from the contents listed for its column.                    *)
(***************************************************************************)
HeaderClinics ==
    << [name |-> <<" ","Y","e","a","r">>, cells |-> {<<"1">>, <<"2">>, <<"x">>}],
       [name |-> <<"D","e","a","t","h","s">>, cells |-> {<<"1">>, <<"2">>}],
       [name |-> <<"C","l","i","n","i","c"," ">>, cells |-> {<<"A">>, <<"B">>, <<>>}] >>

HeaderPriority ==
    << [name |-> <<"y","e","a","r">>, cells |-> {<<"1">>, <<"x">>}],
       [name |-> <<"d","e","a","t","h"," ","c","o","u","n","t">>, cells |-> {<<"2">>}],
       [name |-> <<"D","e","a","t","h","s">>, cells |-> {<<"1">>, <<"x">>}] >>

HeaderBirths ==
    << [name |-> <<"Y","R">>, cells |-> {<<"1">>, <<"3">>}],
       [name |-> <<"D","e","a","t","h">>, cells |-> {<<"1">>, <<"x">>}],
       [name |-> <<"B","i","r","t","h"," ","C","o","u","n","t">>, cells |-> {<<"3">>, <<"x">>}] >>

HeaderSubstring ==
    << [name |-> <<"y","e","a","r","s">>, cells |-> {<<"1">>}],
       [name |-> <<"d","e","a","t","h","s">>, cells |-> {<<"1">>}],
       [name |-> <<"h","o","s","p","i","t","a","l","s">>, cells |-> {<<"A">>}] >>

HeaderNoDeaths ==
    << [name |-> <<"Y","r">>, cells |-> {<<"1">>}],
       [name |-> <<"t","o","t","a","l"," ","d","e","a","t","h","s">>, cells |-> {<<"1">>}],
       [name |-> <<"L","o","c","a","t","i","o","n">>, cells |-> {<<"A">>}] >>

HeaderDuplicate ==
    << [name |-> <<"Y","e","a","r">>, cells |-> {<<"1">>}],
       [name |-> <<"Y","E","A","R">>, cells |-> {<<"1">>}],
       [name |-> <<"H","o","s","p","i","t","a","l">>, cells |-> {<<"A">>}] >>

HeaderAliases ==
    << [name |-> <<"y","r">>, cells |-> {<<"1">>}],
       [name |-> <<"Y","e","a","r">>, cells |-> {<<"1">>}],
       [name |-> <<"d","e","a","t","h","_","c","o","u","n","t">>, cells |-> {<<"1">>}],
       [name |-> <<"D","e","a","t","h","s"," ","C","o","u","n","t">>, cells |-> {<<"2">>}],
       [name |-> <<"b","i","r","t","h","s","_","c","o","u","n","t">>, cells |-> {<<"3">>}],
       [name |-> <<"B","i","r","t","h"," ","C","o","u","n","t">>, cells |-> {<<"3">>}],
       [name |-> <<"l","o","c","a","t","i","o","n">>, cells |-> {<<"A">>}],
       [name |-> <<"P","l","a","c","e">>, cells |-> {<<"B">>}] >>

Headers == {HeaderClinics, HeaderAliases, HeaderPriority, HeaderBirths, HeaderSubstring,
            HeaderNoDeaths, HeaderDuplicate}

CellTexts == {<<"1">>, <<"2">>, <<"3">>, <<"x">>, <<"A">>, <<"B">>, <<>>}

LinesOf(h) == {r \in [1..Len(h) -> CellTexts] : \A j \in 1..Len(h) : r[j] \in h[j].cells}

FilesOf(h) ==
    {[exists |-> TRUE, columns |-> [j \in 1..Len(h) |-> h[j].name], rows |-> rs] :
        rs \in UNION {[1..n -> LinesOf(h)] : n \in 0..MaxRows}}

MissingFile == [exists |-> FALSE, columns |-> <<>>, rows |-> <<>>]

Files == {MissingFile} \cup UNION {FilesOf(h) : h \in Headers}

(***************************************************************************)
(* The script                                                              *)
(***************************************************************************)
NoCache == [filled |-> FALSE, df |-> EmptyFrame]
Untouched == [touched |-> FALSE, val |-> {}]
NoMetrics == [deaths |-> <<>>, births |-> <<>>]

\* the values the script variables have before the script assigns them
Fresh ==
    /\ df = EmptyFrame
    /\ cols_map = NoColsMap
    /\ year_range = <<>>
    /\ selected_clinics = {}
    /\ agg_func = ""
    /\ filtered = EmptyFrame
    /\ deaths_by_year = <<>>
    /\ comp = <<>>
    /\ clinic_agg = <<>>
    /\ total_deaths = NaNVal
    /\ total_births = NaNVal
    /\ metrics = NoMetrics
    /\ ran = {}
    /\ err = NoError

Init ==
    /\ raw \in Files
    /\ cache = NoCache
    /\ wYear = <<>>
    /\ wClinics = Untouched
    /\ wAgg = "Sum"
    /\ Fresh
    /\ pc = "start"

\* the non-missing years of the canonical frame, lines 118-119
YearsOf(d) ==
    {Cell(d, i, NameYear).v :
        i \in {k \in 1..Len(d.rows) : Cell(d, k, NameYear).kind = "num"}}

min_year(d) == CHOOSE y \in YearsOf(d) : \A z \in YearsOf(d) : y <= z
max_year(d) == CHOOSE y \in YearsOf(d) : \A z \in YearsOf(d) : y >= z

\* sorted(df["clinic"].dropna().unique().tolist()), line 123
clinic_list(d) ==
    SortedNames({Cell(d, i, NameClinic).s :
        i \in {k \in 1..Len(d.rows) : Cell(d, k, NameClinic).kind = "str"}})

\* clinic_list[:3]
FirstThree(s) == SubSeq(s, 1, IF Len(s) < 3 THEN Len(s) ELSE 3)

\* lines 74-78: load_data through st.cache_data, which stores the result of
\* the first successful call and hands a copy of it to every caller
Load ==
    /\ pc = "start"
    /\ LET r == IF cache.filled THEN [error |-> "none", df |-> cache.df]
                ELSE load_data(raw)
       IN  /\ ran' = ran \cup {"load"}
           /\ IF r.error = "none"
              THEN /\ cache' = [filled |-> TRUE, df |-> r.df]
                   /\ df' = r.df
                   /\ err' = err
                   /\ pc' = "loaded"
              ELSE IF r.error = "FileNotFoundError"
              THEN /\ err' = [kind |-> "SourceMissing", cols |-> <<>>]
                   /\ pc' = "halted"
                   /\ UNCHANGED <<cache, df>>
              ELSE /\ err' = [kind |-> r.error, cols |-> <<>>]
                   /\ pc' = "error"
                   /\ UNCHANGED <<cache, df>>
    /\ UNCHANGED <<raw, cols_map, wYear, wClinics, wAgg, year_range,
                   selected_clinics, agg_func, filtered, deaths_by_year, comp,
                   clinic_agg, total_deaths, total_births, metrics>>

\* lines 80-92
CheckRequired ==
    /\ pc = "loaded"
    /\ cols_map' = df.attrs
    /\ ran' = ran \cup {"check"}
    /\ IF df.attrs.year = None \/ df.attrs.deaths = None
       THEN /\ err' = [kind |-> "SchemaInvalid", cols |-> df.columns]
            /\ pc' = "halted"
       ELSE /\ err' = err
            /\ pc' = "checked"
    /\ UNCHANGED <<raw, cache, df, wYear, wClinics, wAgg, year_range,
                   selected_clinics, agg_func, filtered, deaths_by_year, comp,
                   clinic_agg, total_deaths, total_births, metrics>>

\* lines 94-112
Canonicalize ==
    /\ pc = "checked"
    /\ df' = canonicalize(df, cols_map)
    /\ ran' = ran \cup {"canonicalize"}
    /\ pc' = "canonical"
    /\ UNCHANGED <<raw, cache, cols_map, wYear, wClinics, wAgg, year_range,
                   selected_clinics, agg_func, filtered, deaths_by_year, comp,
                   clinic_agg, total_deaths, total_births, metrics, err>>

\* lines 117-127: int() of the missing minimum raises TypeError, and .unique
\* of a duplicated clinic label raises AttributeError
Controls ==
    /\ pc = "canonical"
    /\ ran' = ran \cup {"controls"}
    /\ IF YearsOf(df) = {}
       THEN /\ err' = [kind |-> "TypeError", cols |-> <<>>]
            /\ pc' = "error"
            /\ UNCHANGED <<year_range, selected_clinics, agg_func>>
       ELSE IF ~IsSeries(df, NameClinic)
       THEN /\ err' = [kind |-> "AttributeError", cols |-> <<>>]
            /\ pc' = "error"
            /\ UNCHANGED <<year_range, selected_clinics, agg_func>>
       ELSE /\ year_range' = IF wYear = <<>> THEN <<min_year(df), max_year(df)>>
                             ELSE wYear
            /\ selected_clinics' = IF wClinics.touched THEN wClinics.val
                                   ELSE Range(FirstThree(clinic_list(df)))
            /\ agg_func' = IF wAgg = "Sum" THEN "sum" ELSE "mean"
            /\ err' = err
            /\ pc' = "controls"
    /\ UNCHANGED <<raw, cache, df, cols_map, wYear, wClinics, wAgg, filtered,
                   deaths_by_year, comp, clinic_agg, total_deaths, total_births,
                   metrics>>

\* lines 132-134
Filter ==
    /\ pc = "controls"
    /\ LET r == FilterStep(df, year_range, selected_clinics)
       IN  /\ df' = r.df
           /\ filtered' = r.filtered
    /\ ran' = ran \cup {"filter"}
    /\ pc' = "filtered"
    /\ UNCHANGED <<raw, cache, cols_map, wYear, wClinics, wAgg, year_range,
                   selected_clinics, agg_func, deaths_by_year, comp, clinic_agg,
                   total_deaths, total_births, metrics, err>>

\* lines 140-164
Aggregate ==
    /\ pc = "filtered"
    /\ deaths_by_year' = groupby_year(filtered, NameDeaths, agg_func)
    /\ comp' = IF NameBirths \in Range(filtered.columns)
               THEN melt(groupby_year(filtered, NameDeaths, agg_func),
                         groupby_year(filtered, NameBirths, agg_func))
               ELSE <<>>
    /\ clinic_agg' \in sort_values_desc(groupby_clinic(filtered, agg_func))
    /\ ran' = ran \cup {"aggregate"}
    /\ pc' = "aggregated"
    /\ UNCHANGED <<raw, cache, df, cols_map, wYear, wClinics, wAgg, year_range,
                   selected_clinics, agg_func, filtered, total_deaths,
                   total_births, metrics, err>>

\* lines 169-204
Summary ==
    /\ pc = "aggregated"
    /\ LET td == agg(ColumnOf(filtered, filtered.rows, NameDeaths), agg_func)
           hasBirths == NameBirths \in Range(filtered.columns)
           tb == IF hasBirths
                 THEN agg(ColumnOf(filtered, filtered.rows, NameBirths), agg_func)
                 ELSE total_births
       IN  /\ total_deaths' = td
           /\ total_births' = tb
           /\ metrics' = [deaths |-> format_0f(td),
                          births |-> IF hasBirths THEN format_0f(tb) ELSE <<>>]
    /\ ran' = ran \cup {"summary", "download"}
    /\ pc' = "done"
    /\ UNCHANGED <<raw, cache, df, cols_map, wYear, wClinics, wAgg, year_range,
                   selected_clinics, agg_func, filtered, deaths_by_year, comp,
                   clinic_agg, err>>

\* a widget change reruns the script from the top with fresh script variables
Rerun ==
    /\ df' = EmptyFrame
    /\ cols_map' = NoColsMap
    /\ year_range' = <<>>
    /\ selected_clinics' = {}
    /\ agg_func' = ""
    /\ filtered' = EmptyFrame
    /\ deaths_by_year' = <<>>
    /\ comp' = <<>>
    /\ clinic_agg' = <<>>
    /\ total_deaths' = NaNVal
    /\ total_births' = NaNVal
    /\ metrics' = NoMetrics
    /\ ran' = {}
    /\ err' = NoError
    /\ pc' = "start"
    /\ UNCHANGED <<raw, cache>>

\* the slider of line 121 is moved
ChangeYearRange ==
    /\ pc = "done"
    /\ \E lo, hi \in min_year(df)..max_year(df) :
        /\ lo <= hi
        /\ <<lo, hi>> # year_range
        /\ wYear' = <<lo, hi>>
    /\ UNCHANGED <<wClinics, wAgg>>
    /\ Rerun

\* the multiselect of line 124 is changed
ChangeClinics ==
    /\ pc = "done"
    /\ \E sel \in SUBSET Range(clinic_list(df)) :
        /\ sel # selected_clinics
        /\ wClinics' = [touched |-> TRUE, val |-> sel]
    /\ UNCHANGED <<wYear, wAgg>>
    /\ Rerun

\* the selectbox of line 126 is changed
ChangeAgg ==
    /\ pc = "done"
    /\ wAgg' = IF wAgg = "Sum" THEN "Mean" ELSE "Sum"
    /\ UNCHANGED <<wYear, wClinics>>
    /\ Rerun

Next ==
    \/ Load
    \/ CheckRequired
    \/ Canonicalize
    \/ Controls
    \/ Filter
    \/ Aggregate
    \/ Summary
    \/ ChangeYearRange
    \/ ChangeClinics
    \/ ChangeAgg

Spec == Init /\ [][Next]_vars

(***************************************************************************)
(* Properties                                                              *)
(***************************************************************************)
NormalizedNames == {normalize_name(raw.columns[j]) : j \in 1..Len(raw.columns)}

AliasPresent(aliases) == \E k \in 1..Len(aliases) : aliases[k] \in NormalizedNames

AfterFilter == {"filtered", "aggregated", "done"}
AfterAggregate == {"aggregated", "done"}

YearCell(r) == r[IndexOf(df.columns, NameYear)]
DeathsCell(r) == r[IndexOf(df.columns, NameDeaths)]
ClinicCell(r) == r[IndexOf(df.columns, NameClinic)]

\* the record is one the selection asks for
Keep(r) ==
    /\ YearCell(r).kind = "num"
    /\ year_range[1] <= YearCell(r).v
    /\ YearCell(r).v <= year_range[2]
    /\ \/ selected_clinics = {}
       \/ ClinicCell(r).kind = "str" /\ ClinicCell(r).s \in selected_clinics

KeptRows == SelectSeq(df.rows, Keep)

\* C1: the filtered set holds exactly the records whose year is present and
\* within [lo, hi] and whose clinic is selected (or no clinic is selected),
\* each as often as the canonical dataset holds it and in the same order;
\* no record with a missing year is in it.
C1_FilterKeepsExactly ==
    pc \in AfterFilter =>
        /\ filtered.columns = df.columns
        /\ \A r \in Range(filtered.rows) : r \in Range(df.rows) /\ Keep(r)
        /\ \A r \in Range(df.rows) :
              Count(filtered.rows, r) = IF Keep(r) THEN Count(df.rows, r) ELSE 0
        /\ \A r \in Range(filtered.rows) : YearCell(r).kind # "na"

\* a selection that drops a record for its missing year, one for its year
\* and keeps another, with a clinic restriction in force
C1_Witness ==
    /\ pc = "filtered"
    /\ selected_clinics # {}
    /\ filtered.rows # <<>>
    /\ \E r \in Range(df.rows) : YearCell(r).kind = "na"
    /\ Len(filtered.rows) < Len(df.rows)

\* the sum of the deaths of a sequence of canonical rows, missing values skipped
SumDeaths(rows) ==
    SumSeq([i \in 1..Len(rows) |->
        IF DeathsCell(rows[i]).kind = "num" THEN DeathsCell(rows[i]).v ELSE 0])

YearDetectable == AliasPresent(YearAliases)
DeathsDetectable == AliasPresent(DeathAliases)

LaterSteps == {"canonicalize", "controls", "filter", "aggregate", "summary", "download"}

\* C2: when no year alias or no deaths alias is among the normalized column
\* names, the pass ends halted with the schema error that lists the
\* normalized columns, and none of the later steps has run.
C2_SchemaErrorHalts ==
    (raw.exists /\ (~YearDetectable \/ ~DeathsDetectable) /\ pc \notin {"start", "loaded"})
        => /\ pc = "halted"
           /\ err = [kind |-> "SchemaInvalid",
                     cols |-> [j \in 1..Len(raw.columns) |-> normalize_name(raw.columns[j])]]
           /\ ran \cap LaterSteps = {}

\* C3: with a year column and a deaths column detected, and at least one
\* data line, no pass ends in an uncaught error, however many cells fail
\* numeric coercion.
C3_PassNeverRaises ==
    (raw.exists /\ YearDetectable /\ DeathsDetectable /\ raw.rows # <<>>)
        => pc # "error"

ClinicsIn(d) ==
    {Cell(d, i, NameClinic).s :
        i \in {k \in 1..Len(d.rows) : Cell(d, k, NameClinic).kind = "str"}}

\* C4: the clinic aggregate has one row per distinct clinic of the filtered
\* set, in descending order of the reduced deaths, and of two clinics with
\* equal reduced deaths the one with the smaller name comes first.
C4_ClinicAggOrdered ==
    pc \in AfterAggregate =>
        /\ {clinic_agg[k].clinic : k \in 1..Len(clinic_agg)} = ClinicsIn(filtered)
        /\ Len(clinic_agg) = Cardinality(ClinicsIn(filtered))
        /\ \A a, b \in 1..Len(clinic_agg) : a < b =>
              /\ ~VGt(clinic_agg[b].deaths, clinic_agg[a].deaths)
              /\ VEq(clinic_agg[a].deaths, clinic_agg[b].deaths)
                    => StrLess(clinic_agg[a].clinic, clinic_agg[b].clinic)

AbsentOrZero(x) == x.nan \/ x.num = 0

\* C5: when the selection excludes every record, no step of the pass raises,
\* the year aggregate, the comparison table and the clinic aggregate are
\* empty, and the scalar totals and the displayed metrics are NaN or zero.
C5_EmptySelection ==
    ("filter" \in ran /\ \A r \in Range(df.rows) : ~Keep(r)) =>
        /\ pc # "error"
        /\ err = NoError
        /\ filtered.rows = <<>>
        /\ "aggregate" \in ran =>
              deaths_by_year = <<>> /\ comp = <<>> /\ clinic_agg = <<>>
        /\ "summary" \in ran =>
              /\ AbsentOrZero(total_deaths)
              /\ metrics.deaths \in {<<"n","a","n">>, <<"0">>}
              /\ NameBirths \in Range(df.columns) =>
                    /\ AbsentOrZero(total_births)
                    /\ metrics.births \in {<<"n","a","n">>, <<"0">>}

\* a finished pass in mean mode over a dataset with births whose selection
\* excluded every record
C5_Witness ==
    /\ pc = "done"
    /\ agg_func = "mean"
    /\ df.rows # <<>>
    /\ filtered.rows = <<>>
    /\ NameBirths \in Range(df.columns)

CanonicalStages == {"canonical", "controls", "filtered", "aggregated", "done"}

\* C6: when no clinic alias is among the normalized column names, every
\* record of the canonical dataset has clinic "All", and a non-empty filtered
\* set gives a clinic aggregate of exactly one group.
C6_PlaceholderClinic ==
    (~AliasPresent(ClinicAliases) /\ pc \in CanonicalStages) =>
        /\ IsSeries(df, NameClinic)
        /\ \A r \in Range(df.rows) : ClinicCell(r) = Str(TextAll)
        /\ (pc \in AfterAggregate /\ filtered.rows # <<>>) =>
              Len(clinic_agg) = 1 /\ clinic_agg[1].clinic = TextAll

\* a finished pass over two filtered records of a dataset without a clinic column
C6_Witness ==
    /\ pc = "done"
    /\ ~AliasPresent(ClinicAliases)
    /\ Len(filtered.rows) >= 2

\* r is the first alias of the list that is a normalized column name, or None
\* when none is
IsFirstAlias(r, aliases) ==
    \/ r = None /\ \A k \in 1..Len(aliases) : aliases[k] \notin NormalizedNames
    \/ \E k \in 1..Len(aliases) :
          /\ r = aliases[k]
          /\ aliases[k] \in NormalizedNames
          /\ \A j \in 1..(k - 1) : aliases[j] \notin NormalizedNames

\* C7: for each of year, deaths, births and clinic the detected column is the
\* first alias of the field's priority list that equals a normalized column
\* name, and None when no alias does; a name that merely contains an alias is
\* never the result.
C7_FirstAliasWins ==
    cache.filled =>
        /\ IsFirstAlias(cache.df.attrs.year, YearAliases)
        /\ IsFirstAlias(cache.df.attrs.deaths, DeathAliases)
        /\ IsFirstAlias(cache.df.attrs.births, BirthAliases)
        /\ IsFirstAlias(cache.df.attrs.clinic, ClinicAliases)
        /\ "check" \in ran => cols_map = cache.df.attrs

\* deaths and death_count are both columns and deaths was detected
C7_Witness ==
    /\ cache.filled
    /\ DeathAliases[1] \in NormalizedNames
    /\ DeathAliases[4] \in NormalizedNames
    /\ cache.df.attrs.deaths = DeathAliases[1]
    /\ cache.df.attrs.clinic = None

\* the record passes the clinic restriction of the selection
ClinicSelected(r) ==
    /\ ClinicCell(r).kind = "str"
    /\ selected_clinics = {} \/ ClinicCell(r).s \in selected_clinics

\* C8 as stated: a record whose year is missing is outside the filtered set
\* and the year aggregate, but its deaths are part of the sum shown for its
\* clinic in the clinic aggregate.
C8_MissingYearCountedByClinic ==
    (pc = "done" /\ agg_func = "sum") =>
        \A r \in Range(df.rows) :
            (YearCell(r).kind = "na" /\ ClinicSelected(r)) =>
                /\ r \notin Range(filtered.rows)
                /\ \E k \in 1..Len(clinic_agg) :
                      /\ clinic_agg[k].clinic = ClinicCell(r).s
                      /\ clinic_agg[k].deaths.num =
                            SumDeaths(SelectSeq(df.rows,
                                LAMBDA q : /\ ClinicCell(q) = ClinicCell(r)
                                           /\ Keep(q) \/ YearCell(q).kind = "na"))

\* C8 as amended: a record whose year is missing is outside the filtered
\* set, and every year-aggregate row, every clinic-aggregate row and the
\* scalar total is the reduction of the deaths of kept records only, so the
\* deaths of such a record are counted nowhere.
C8_MissingYearCountedNowhere ==
    pc = "done" =>
        /\ \A r \in Range(df.rows) : YearCell(r).kind = "na" => r \notin Range(filtered.rows)
        /\ total_deaths = agg([i \in 1..Len(KeptRows) |-> DeathsCell(KeptRows[i])], agg_func)
        /\ \A k \in 1..Len(clinic_agg) :
              LET rows == SelectSeq(KeptRows,
                              LAMBDA q : ClinicCell(q) = Str(clinic_agg[k].clinic))
              IN  clinic_agg[k].deaths =
                      agg([i \in 1..Len(rows) |-> DeathsCell(rows[i])], agg_func)
        /\ \A k \in 1..Len(deaths_by_year) :
              LET rows == SelectSeq(KeptRows,
                              LAMBDA q : YearCell(q) = Num(deaths_by_year[k].year))
              IN  deaths_by_year[k].value =
                      agg([i \in 1..Len(rows) |-> DeathsCell(rows[i])], agg_func)

\* a finished pass over a dataset with a record whose year is missing and
\* whose deaths are positive, its clinic being a row of the clinic aggregate
C8_Witness ==
    /\ pc = "done"
    /\ \E r \in Range(df.rows) :
          /\ YearCell(r).kind = "na"
          /\ DeathsCell(r).kind = "num" /\ DeathsCell(r).v > 0
          /\ ClinicSelected(r)
          /\ \E k \in 1..Len(clinic_agg) : clinic_agg[k].clinic = ClinicCell(r).s

\* C9: once the load result is memoized no step and no rerun changes it, and
\* from the end of normalization to the end of the pass no step changes the
\* canonical dataset df; the pass after an interaction starts from the same
\* memoized frame.
C9_CanonicalUnchanged ==
    [][/\ cache.filled => cache' = cache
       /\ pc \in {"canonical", "controls", "filtered", "aggregated"} => df' = df
       /\ (pc = "start" /\ cache.filled /\ pc' = "loaded") => df' = cache.df]_vars

\* a pass after a slider interaction has filtered the dataset down
C9_Witness ==
    /\ pc = "done"
    /\ wYear # <<>>
    /\ wClinics.touched
    /\ cache.filled
    /\ Len(filtered.rows) < Len(df.rows)

\* C10: in sum mode the deaths of the year-aggregate rows and the deaths of
\* the clinic-aggregate rows both add up to the scalar total deaths.
C10_AggregatesPartition ==
    (pc = "done" /\ agg_func = "sum") =>
        /\ SumSeq([k \in 1..Len(deaths_by_year) |-> deaths_by_year[k].value.num])
              = total_deaths.num
        /\ SumSeq([k \in 1..Len(clinic_agg) |-> clinic_agg[k].deaths.num])
              = total_deaths.num

====
